---------------------------- MODULE Spec2Model ----------------------------
(***************************************************************************)
(* Trade ledger of the matchmaker package: import of activity statements,  *)
(* State.merge_with, merge_trades and the split adjustment of trades.      *)
(*                                                                         *)
(* Tables (pandas DataFrames) are sequences of records, one record per     *)
(* row, in row order.  Floating point columns are exact rationals <<n, d>> *)
(* with d > 0 in lowest terms; the missing value NaN is <<0, 0>>.          *)
(***************************************************************************)
EXTENDS Integers, Sequences, FiniteSets, TLC

VARIABLES
    trades,          \* State.trades, index column Hash
    actions,         \* State.actions
    positions,       \* State.positions
    imports,         \* State.imports
    pairs,           \* State.pairings, the pairs computed so far
    other,           \* the State handed to the last merge_with / import
    drop_pairings,   \* the drop_pairings argument of the last merge_with
    imported_count,  \* the value returned by the last merge_with
    lastOp,          \* the operation that ran last
    merges,          \* number of merge_with calls, loop passes or page runs so far
    runs,            \* successive adjust_for_splits calls on unchanged tables
    symbols,         \* State.symbols, index column Symbol
    dividends,       \* State.dividends
    input,           \* the table handed to the operation that ran last
    report,          \* the rows returned by the query that ran last
    raised,          \* the exception that escaped the last operation
    uploads,         \* the uploaded files the import page has still to read
    errors,          \* the files the import page reported through st.error
    filenames        \* st.session_state.filenames, the names uploaded in the last run

vars == <<trades, actions, positions, imports, pairs, other, drop_pairings,
          imported_count, lastOp, merges, runs, symbols, dividends, input,
          report, raised, uploads, errors, filenames>>

\* the part of the state that merging and split adjustment leave alone
rest == <<symbols, dividends, input, report, raised, uploads, errors, filenames>>

---------------------------------------------------------------------------
(* Bounds of the model.                                                    *)

MaxRows == 3          \* trade rows of one statement
MaxActionRows == 1    \* corporate action rows of one statement
MaxActions == 3       \* rows of the ledger's action table
MaxMerges == 2        \* merge_with calls with a freshly imported statement
MaxRuns == 2          \* successive adjust_for_splits calls
MaxSplitTrades == 1   \* trade rows of a table given to adjust_for_splits
MaxSplitRows == 2     \* action rows of a table given to adjust_for_splits

Times == {1, 2, 3}
Symbols == {"AAA", "BBB"}
Accounts == {"U1", "U2"}

---------------------------------------------------------------------------
(* Rational arithmetic standing for float64.                               *)

NaN == <<0, 0>>

IsNaN(r) == r[2] = 0

Abs(n) == IF n < 0 THEN -n ELSE n

RECURSIVE GCD(_, _)
GCD(a, b) == IF b = 0 THEN a ELSE GCD(b, a % b)

Norm(n, d) ==
    IF d = 0 THEN NaN
    ELSE LET g == GCD(Abs(n), Abs(d))
             s == IF d < 0 THEN -1 ELSE 1
         IN  <<(s * n) \div g, (s * d) \div g>>

Rat(n) == <<n, 1>>

One == Rat(1)

RMul(a, b) == IF IsNaN(a) \/ IsNaN(b) THEN NaN ELSE Norm(a[1] * b[1], a[2] * b[2])

RDiv(a, b) == IF IsNaN(a) \/ IsNaN(b) THEN NaN ELSE Norm(a[1] * b[2], a[2] * b[1])

RLess(a, b) == a[1] * b[2] < b[1] * a[2]

\* Series.min(): NaN for an empty selection
RMin(S) == IF S = {} THEN NaN ELSE CHOOSE m \in S : \A x \in S : ~RLess(x, m)

\* Series.fillna(v)
FillNa(r, v) == IF IsNaN(r) THEN v ELSE r

---------------------------------------------------------------------------
(* Sequence helpers standing for DataFrame operations.                     *)

SeqMap(s, F(_)) == [i \in 1..Len(s) |-> F(s[i])]

\* rows of s whose key did not occur in an earlier row (keep='first')
KeepFirst(s, K(_)) ==
    LET keep(i) == \A j \in 1..(i - 1) : K(s[j]) # K(s[i])
        F[i \in 0..Len(s)] ==
            IF i = 0 THEN <<>>
            ELSE IF keep(i) THEN Append(F[i - 1], s[i]) ELSE F[i - 1]
    IN  F[Len(s)]

Identity(x) == x

\* DataFrame.drop_duplicates(): exact duplicate rows, first kept
drop_duplicates(s) == KeepFirst(s, Identity)

\* stable ascending sort by an integer key (insertion sort)
SortBy(s, K(_)) ==
    LET ins(r, x) ==
            LET n == Cardinality({i \in 1..Len(r) : K(r[i]) <= K(x)})
            IN  SubSeq(r, 1, n) \o <<x>> \o SubSeq(r, n + 1, Len(r))
        F[i \in 0..Len(s)] == IF i = 0 THEN <<>> ELSE ins(F[i - 1], s[i])
    IN  F[Len(s)]

SeqsUpTo(S, n) == UNION {[1..k -> S] : k \in 0..n}

---------------------------------------------------------------------------
(* Import of one activity statement (matchmaker.ibkr).                     *)

None == "None"

IsZero(r) == ~IsNaN(r) /\ r[1] = 0

Positive(r) == r[1] > 0

Negative(r) == r[1] < 0

RNeg(r) == <<-r[1], r[2]>>

RAbs(r) == <<Abs(r[1]), r[2]>>

RAdd(a, b) ==
    IF IsNaN(a) \/ IsNaN(b) THEN NaN ELSE Norm(a[1] * b[2] + b[1] * a[2], a[2] * b[2])

\* A row of a table handed to normalize_trades: the columns Symbol, Date/Time,
\* Quantity, T. Price, Code, Action, Type and Target.  The numeric columns are
\* float64 by then (to_numeric leaves them as they are); None stands for a
\* cell of a column the table does not have.  The remaining broker columns do
\* not take part in the model.
TableRow(sym, t, q, p, code, action, type, target) ==
    [Symbol |-> sym, DateTime |-> t, Quantity |-> q, TPrice |-> p, Code |-> code,
     Action |-> action, Type |-> type, Target |-> target]

\* The rows of a statement's Trades section: (Symbol, Date/Time, Quantity,
\* T. Price, Code) as written in the file.
CodedTrade(sym, t, q, p, code) ==
    [Symbol |-> sym, DateTime |-> t, Quantity |-> q, TPrice |-> p, Code |-> code]

\* a purchase carries the code O, a sale the code C
RawTrade(sym, t, q, p) == CodedTrade(sym, t, q, p, IF q > 0 THEN "O" ELSE "C")

\* The rows of a statement's Transfers section: (Symbol, Date, Qty, Xfer Account)
RawTransfer(sym, t, q, xfer) ==
    [Symbol |-> sym, Date |-> t, Qty |-> q, XferAccount |-> xfer]

\* The Description text of a corporate action row:
\*   kind "Split":       "<Symbol>(<isin>) Split <N> for <M>"
\*   kind "Spinoff":     "<Symbol>(<isin>) Spinoff  <N> for <M> (<Child>, ...)"
\*   kind "Acquisition": "<Symbol>(<isin>) Merged(Acquisition) FOR USD <N>.00 PER SHARE"
\*   kind "Merger":      "<Symbol>(<isin>) Merged(Acquisition) WITH <isin> <N> for <M> (<Child>, ...)"
\*   kind "Other":       "<Symbol>(<isin>) <anything else>"
SplitText(sym, n, m) ==
    [kind |-> "Split", Symbol |-> sym, N |-> n, M |-> m, Child |-> None]
SpinoffText(sym, n, m, child) ==
    [kind |-> "Spinoff", Symbol |-> sym, N |-> n, M |-> m, Child |-> child]
AcquisitionText(sym, n) ==
    [kind |-> "Acquisition", Symbol |-> sym, N |-> n, M |-> 0, Child |-> None]
MergerText(sym, n, m, child) ==
    [kind |-> "Merger", Symbol |-> sym, N |-> n, M |-> m, Child |-> child]
OtherText(sym) ==
    [kind |-> "Other", Symbol |-> sym, N |-> 0, M |-> 0, Child |-> None]

\* a row of the Corporate Actions section: (Description, Date/Time, Quantity,
\* Proceeds, Value)
ActionRow(text, t, q, proceeds, value) ==
    [Description |-> text, DateTime |-> t, Quantity |-> q, Proceeds |-> proceeds,
     Value |-> value]

RawAction(text, t) == ActionRow(text, t, 0, 0, 0)

\* hash.hash_row over the columns the row has when normalize_trades runs
\* (the Account column is filled in later, by import_activity_statement)
hash_row(row) == <<row.Symbol, row.DateTime, row.Quantity, row.TPrice>>

\* the Code values of the model; CodesWith(sub) are those holding the text sub
Codes == {"O", "C", "Ca", "C;O", "P"}

CodesWith(sub) ==
    CASE sub = "O" -> {"O", "C;O"}
      [] sub = "Ca" -> {"Ca"}
      [] sub = "C" -> {"C", "Ca", "C;O"}

\* a variant of get_type that tells Long from Short by the sign alone
get_type_by_sign(row) ==
    IF IsZero(row.Quantity) THEN None
    ELSE IF row.Action = "Transfer"
         THEN (IF Positive(row.Quantity) THEN "In" ELSE "Out")
    ELSE IF Positive(row.Quantity) THEN "Long"
    ELSE "Short"

\* get_type of convert_trade_columns
get_type(row) ==
    IF IsZero(row.Quantity) THEN None
    ELSE IF row.Action = "Transfer"
         THEN (IF Positive(row.Quantity) THEN "In" ELSE "Out")
    ELSE IF \/ (row.Action = "Close" /\ Negative(row.Quantity))
            \/ (row.Action = "Open" /\ Positive(row.Quantity))
         THEN "Long"
    ELSE "Short"

\* trade.convert_trade_columns: Action from Code when the table has no Action
\* column, Display Suffix '' when it has none, Type filled where it is null
convert_trade_columns(df) ==
    LET hasAction == \E i \in 1..Len(df) : df[i].Action # None
        conv(row) ==
            LET action == IF ~hasAction
                          THEN IF row.Code \in CodesWith("O") \/ row.Code \in CodesWith("Ca")
                               THEN "Open"
                               ELSE IF row.Code \in CodesWith("C") THEN "Close"
                               ELSE "Unknown"
                          ELSE row.Action
                acted == [row EXCEPT !.Action = action]
            IN  [acted EXCEPT !.Type = IF @ = None THEN get_type(acted) ELSE @]
                @@ [DisplaySuffix |-> ""]
    IN  SeqMap(df, conv)

normalize_trades(df) ==
    LET norm(row) ==
            [Hash |-> hash_row(row),
             Symbol |-> row.Symbol,
             DateTime |-> row.DateTime,
             Quantity |-> row.Quantity,
             TPrice |-> row.TPrice,
             OrigQuantity |-> row.Quantity,
             OrigTPrice |-> row.TPrice,
             SplitRatio |-> NaN,
             Account |-> None,
             Action |-> row.Action,
             Type |-> row.Type,
             DisplaySuffix |-> row.DisplaySuffix,
             Target |-> row.Target]
    IN  SeqMap(convert_trade_columns(df), norm)

import_trades(lines) ==
    normalize_trades(SeqMap(lines.Trades,
        LAMBDA row : TableRow(row.Symbol, row.DateTime, Rat(row.Quantity),
                              Rat(row.TPrice), row.Code, None, None, None)))

\* (action, symbol, ratio, target) of a description; ratio = M / N for
\* "Split N for M"
parse_split_text(text) ==
    IF text.kind = "Split"
    THEN <<"Split", text.Symbol, Norm(text.M, text.N), None>>
    ELSE <<None, None, NaN, None>>

\* ratio = N / M for "Spinoff N for M (Child, ...)"; the symbol is the child's
parse_spinoff_text(text) ==
    IF text.kind = "Spinoff"
    THEN <<"Spinoff", text.Child, Norm(text.N, text.M), None>>
    ELSE <<None, None, NaN, None>>

\* a cash acquisition keeps the symbol and has the price as ratio; a merger
\* "N for M (Child, ...)" has the child's symbol, ratio M / N and the old
\* symbol as target
parse_acquisition_text(text) ==
    IF text.kind = "Acquisition"
    THEN <<"Acquisition", text.Symbol, Rat(text.N), None>>
    ELSE IF text.kind = "Merger"
    THEN <<"Acquisition", text.Child, Norm(text.M, text.N), text.Symbol>>
    ELSE <<None, None, NaN, None>>

parse_action_text(text) ==
    LET split == parse_split_text(text)
        spinoff == parse_spinoff_text(text)
        acquisition == parse_acquisition_text(text)
    IN  IF split[1] # None THEN split
        ELSE IF spinoff[1] # None THEN spinoff
        ELSE IF acquisition[1] # None THEN acquisition
        ELSE <<"Unknown", text.Symbol, Rat(0), None>>

import_corporate_actions(lines) ==
    LET conv(row) ==
            LET parsed == parse_action_text(row.Description)
            IN  [Description |-> row.Description,
                 DateTime |-> row.DateTime,
                 Quantity |-> Rat(row.Quantity),
                 Proceeds |-> Rat(row.Proceeds),
                 Value |-> Rat(row.Value),
                 Action |-> parsed[1],
                 Symbol |-> parsed[2],
                 Ratio |-> parsed[3],
                 Target |-> parsed[4]]
    IN  SeqMap(lines.Actions, conv)

import_open_positions(lines) == lines.Positions

import_transfers(lines) ==
    normalize_trades(SeqMap(lines.Transfers,
        LAMBDA row : TableRow(row.Symbol, row.Date, Rat(row.Qty), Rat(0), None,
                              "Transfer", None, row.XferAccount)))

\* a variant that books the generated trade as a Transfer
spinoff_action_transfer(q) == "Transfer"

\* the 'Action' entry of a generated trade
spinoff_action(q) == IF ~Negative(q) THEN "Open" ELSE "Close"

\* one trade per Spinoff or Acquisition row, dated a second (one instant)
\* before the action
generate_transfers_from_actions(acts) ==
    LET spinoffs == SelectSeq(acts, LAMBDA a : a.Action = "Spinoff" \/ a.Action = "Acquisition")
        transfer(spinoff) ==
            LET proceeds == IF spinoff.Action # "Acquisition" \/ ~IsZero(spinoff.Proceeds)
                            THEN spinoff.Proceeds
                            ELSE RNeg(spinoff.Value)
            IN  TableRow(spinoff.Symbol,
                         spinoff.DateTime - 1,
                         spinoff.Quantity,
                         IF ~IsZero(spinoff.Quantity)
                         THEN RAbs(RDiv(proceeds, spinoff.Quantity))
                         ELSE Rat(0),
                         None,
                         spinoff_action(spinoff.Quantity),
                         spinoff.Action,
                         None)
    IN  normalize_trades(SeqMap(spinoffs, transfer))

\* the exception import_activity_statement raises for the file, None if none:
\* no Period line, no Account row in Account Information, or an account
\* string that does not start with U<digits>
import_failure(file) ==
    IF ~file.Period THEN "Exception"
    ELSE IF file.Account = None THEN "IndexError"
    ELSE IF file.Account \notin Accounts THEN "ValueError"
    ELSE None

import_activity_statement(file) ==
    LET account == file.Account
        fill(row) == [row EXCEPT !.Account = IF @ = None THEN account ELSE @]
        acts == import_corporate_actions(file)
        transfers == import_transfers(file) \o generate_transfers_from_actions(acts)
        tradesIn == SeqMap(import_trades(file) \o transfers, fill)
        posIn == SeqMap(import_open_positions(file),
                        LAMBDA row : [Symbol |-> row.Symbol, Date |-> row.Date,
                                      Quantity |-> row.Quantity, Account |-> account])
    IN  [trades |-> tradesIn,
         actions |-> acts,
         imports |-> <<[Account |-> account, From |-> 1, To |-> 3,
                        TradeCount |-> Len(tradesIn)]>>,
         positions |-> posIn]

---------------------------------------------------------------------------
(* Split adjustment (matchmaker.trade).                                    *)

DateTimeOf(row) == row.DateTime

\* the Split rows, ascending by Date/Time
SortedSplits(split_actions) ==
    SortBy(SelectSeq(split_actions, LAMBDA a : a.Action = "Split"), DateTimeOf)

\* groupby('Symbol')['Ratio'].cumprod() at row i of the sorted Split rows
CumulativeRatio(splits, i) ==
    LET same == {j \in 1..i : splits[j].Symbol = splits[i].Symbol}
        F[j \in 0..i] ==
            IF j = 0 THEN One
            ELSE IF j \in same THEN RMul(F[j - 1], splits[j].Ratio) ELSE F[j - 1]
    IN  F[i]

\* trade.add_split_data; fillna(1.0, inplace=True) is taken to reach the column
add_split_data(target, split_actions) ==
    LET splits == SortedSplits(split_actions)
        later(row) == {i \in 1..Len(splits) :
                          /\ splits[i].Symbol = row.Symbol
                          /\ splits[i].DateTime > row.DateTime}
        ratio(row) ==
            FillNa(RDiv(One, RMin({CumulativeRatio(splits, i) : i \in later(row)})), One)
    IN  IF split_actions = <<>> \/ splits = <<>>
        THEN SeqMap(target, LAMBDA row : [row EXCEPT !.SplitRatio = One])
        ELSE SeqMap(target, LAMBDA row : [row EXCEPT !.SplitRatio = ratio(row)])

\* a variant that re-scales the current quantity and price, not the originals
adjust_for_splits_compounding(tr, split_actions) ==
    IF split_actions # <<>>
    THEN SeqMap(add_split_data(tr, split_actions),
                LAMBDA row : [row EXCEPT
                    !.Quantity = RMul(row.Quantity, row.SplitRatio),
                    !.TPrice = RDiv(row.TPrice, row.SplitRatio)])
    ELSE tr

\* trade.adjust_for_splits; a missing 'Split Ratio' column reads as NaN
adjust_for_splits(tr, split_actions) ==
    IF split_actions # <<>>
    THEN SeqMap(add_split_data(tr, split_actions),
                LAMBDA row : [row EXCEPT
                    !.Quantity = RMul(row.OrigQuantity, row.SplitRatio),
                    !.TPrice = RDiv(row.OrigTPrice, row.SplitRatio)])
    ELSE tr

---------------------------------------------------------------------------
(* Merging (matchmaker.trade.merge_trades, matchmaker.data.State).         *)

HashOf(row) == row.Hash

\* `existing is None` does not occur for the tables of a State
merge_trades(existing, new) ==
    IF Len(new) = 0 THEN existing
    ELSE KeepFirst(existing \o new, HashOf)

SymbolDate(row) == <<row.Symbol, row.Date>>

\* Series.min() of the Date/Time column; NaT (0) for an empty table
MinDateTime(tr) ==
    IF tr = <<>> THEN 0
    ELSE CHOOSE t \in {tr[i].DateTime : i \in 1..Len(tr)} :
            \A i \in 1..Len(tr) : t <= tr[i].DateTime

\* Pairings.invalidate_pairs: the pairs dated at or after from_date are dropped
invalidate_pairs(prs, from_date) == {p \in prs : p.Time < from_date}

\* Pairings.populate_pairings: a close is paired with the earlier opens of
\* its symbol; a pair is dated by its closing trade
populate_pairings(tr) ==
    {[Open |-> tr[i].Hash, Close |-> tr[j].Hash, Time |-> tr[j].DateTime] :
        <<i, j>> \in {x \in (1..Len(tr)) \X (1..Len(tr)) :
                        /\ tr[x[1]].Symbol = tr[x[2]].Symbol
                        /\ tr[x[1]].OrigQuantity[1] > 0
                        /\ tr[x[2]].OrigQuantity[1] < 0
                        /\ tr[x[1]].DateTime <= tr[x[2]].DateTime}}

\* State.__init__ / State.reset
EmptyState ==
    [trades |-> <<>>, actions |-> <<>>, imports |-> <<>>, positions |-> <<>>]

\* State.merge_with(other, drop): the tables of self after the call, its
\* pairings and the returned count
merge_with(self, oth, drop) ==
    LET newImports == drop_duplicates(self.imports \o oth.imports)
        newActions == IF Len(oth.actions) > 0
                      THEN oth.actions \o self.actions
                      ELSE self.actions
        newPositions == KeepFirst(oth.positions \o self.positions, SymbolDate)
        before == Len(self.trades)
        newTrades == merge_trades(oth.trades, self.trades)
        count == Len(newTrades) - before
        newPairs == IF count > 0 /\ drop
                    THEN invalidate_pairs(self.pairs, MinDateTime(oth.trades))
                    ELSE IF ~drop THEN {} ELSE self.pairs
    IN  [trades |-> newTrades, actions |-> newActions, imports |-> newImports,
         positions |-> newPositions, pairs |-> newPairs, count |-> count]

Self ==
    [trades |-> trades, actions |-> actions, imports |-> imports,
     positions |-> positions, pairs |-> pairs]

---------------------------------------------------------------------------
(* Statements the import can be given.                                     *)

MergeTimes == {1, 2}

\* purchases at either instant, a sale at the later one
MergeRawTrades ==
    {RawTrade("AAA", t, 2, 4) : t \in MergeTimes} \cup {RawTrade("AAA", 2, -2, 4)}

MergeRawActions == {RawAction(SplitText("AAA", 2, 1), 3)}

\* a statement lists its trades in ascending Date/Time
Ascending(rows) ==
    \A i \in 1..(Len(rows) - 1) : rows[i].DateTime <= rows[i + 1].DateTime

RECURSIVE SumQuantity(_)
SumQuantity(rows) ==
    IF rows = <<>> THEN 0 ELSE Head(rows).Quantity + SumQuantity(Tail(rows))

\* the open position summary of a statement: the net quantity it traded
PositionsOf(rows) ==
    IF rows = <<>> THEN <<>>
    ELSE <<[Symbol |-> "AAA", Date |-> 3, Quantity |-> SumQuantity(rows)]>>

Statements ==
    {[Account |-> a, Period |-> TRUE, Trades |-> rows, Actions |-> acts,
      Transfers |-> <<>>, Positions |-> PositionsOf(rows)] :
        a \in Accounts,
        rows \in {r \in SeqsUpTo(MergeRawTrades, MaxRows) : Ascending(r)},
        acts \in SeqsUpTo(MergeRawActions, MaxActionRows)}

---------------------------------------------------------------------------
(* The ledger of one session.                                              *)

\* State.reset for the tables; nothing uploaded, reported or raised
RestInit ==
    /\ symbols = <<>>
    /\ dividends = <<>>
    /\ input = <<>>
    /\ report = <<>>
    /\ raised = None
    /\ uploads = <<>>
    /\ errors = {}
    /\ filenames = <<>>

Init ==
    /\ RestInit
    /\ trades = <<>>
    /\ actions = <<>>
    /\ positions = <<>>
    /\ imports = <<>>
    /\ pairs = {}
    /\ other = EmptyState
    /\ drop_pairings = TRUE
    /\ imported_count = 0
    /\ lastOp = "init"
    /\ merges = 0
    /\ runs = 0

Merged(oth, drop) ==
    LET m == merge_with(Self, oth, drop)
    IN  /\ Len(m.actions) <= MaxActions
        /\ trades' = m.trades
        /\ actions' = m.actions
        /\ imports' = m.imports
        /\ positions' = m.positions
        /\ pairs' = m.pairs
        /\ imported_count' = m.count
        /\ other' = oth
        /\ drop_pairings' = drop
        /\ runs' = 0
        /\ UNCHANGED rest

\* a statement is imported and merged into the session's State
MergeWith ==
    /\ merges < MaxMerges
    /\ \E file \in Statements, drop \in BOOLEAN :
          Merged(import_activity_statement(file), drop)
    /\ merges' = merges + 1
    /\ lastOp' = "merge"

\* the State merged last is merged once more
MergeAgain ==
    /\ lastOp \in {"merge", "merge_again"}
    /\ Merged(other, drop_pairings)
    /\ lastOp' = "merge_again"
    /\ UNCHANGED merges

\* the trades of the ledger are paired
PairTrades ==
    /\ Len(trades) > 0
    /\ pairs # populate_pairings(trades)
    /\ pairs' = populate_pairings(trades)
    /\ lastOp' = "pair"
    /\ UNCHANGED <<trades, actions, positions, imports, other, drop_pairings,
                   imported_count, merges, runs>>
    /\ UNCHANGED rest

Next == MergeWith \/ MergeAgain \/ PairTrades

Spec == Init /\ [][Next]_vars

---------------------------------------------------------------------------
(* adjust_for_splits applied to the tables of one imported statement.      *)

SplitTerms == {<<2, 1>>, <<1, 2>>}

SplitRawTrades == {RawTrade("AAA", t, 2, 4) : t \in Times}

SplitRawActions ==
    {RawAction(SplitText(sym, nm[1], nm[2]), t) :
        sym \in Symbols, nm \in SplitTerms, t \in Times}
    \cup {RawAction(OtherText("AAA"), 1)}

\* one symbol does not split twice, differently, at one instant
Consistent(acts) ==
    \A i, j \in 1..Len(acts) :
        (/\ acts[i].DateTime = acts[j].DateTime
         /\ acts[i].Description.Symbol = acts[j].Description.Symbol
         /\ acts[i].Description.kind = "Split"
         /\ acts[j].Description.kind = "Split") => acts[i] = acts[j]

SplitStatements ==
    {[Account |-> "U1", Period |-> TRUE, Trades |-> rows, Actions |-> acts,
      Transfers |-> <<>>, Positions |-> <<>>] :
        rows \in SeqsUpTo(SplitRawTrades, MaxSplitTrades) \ {<<>>},
        acts \in {a \in SeqsUpTo(SplitRawActions, MaxSplitRows) : Consistent(a)}}

InitSplits ==
    \E file \in SplitStatements :
        /\ RestInit
        /\ other = import_activity_statement(file)
        /\ trades = other.trades
        /\ actions = other.actions
        /\ positions = other.positions
        /\ imports = other.imports
        /\ pairs = {}
        /\ drop_pairings = TRUE
        /\ imported_count = Len(other.trades)
        /\ lastOp = "merge"
        /\ merges = 1
        /\ runs = 0

\* trade.adjust_for_splits(self.trades, self.actions)
AdjustForSplits ==
    /\ Len(trades) > 0
    /\ runs < MaxRuns
    /\ trades' = adjust_for_splits(trades, actions)
    /\ runs' = runs + 1
    /\ lastOp' = "adjust"
    /\ UNCHANGED <<actions, positions, imports, pairs, other, drop_pairings,
                   imported_count, merges>>
    /\ UNCHANGED rest

NextSplits == AdjustForSplits

SpecSplits == InitSplits /\ [][NextSplits]_vars

---------------------------------------------------------------------------
(* Properties of merge_with.                                               *)

HashesOf(tr) == {tr[i].Hash : i \in 1..Len(tr)}

\* this step is a call of merge_with, with `other'` as its argument
MergeStep == merges' = merges + 1 \/ lastOp' = "merge_again"

\* this step merges the State that the previous call merged
RemergeStep == lastOp \in {"merge", "merge_again"} /\ lastOp' = "merge_again"

\* C1: merging the same ledger B a second time changes neither the trade
\* table, the action table, the open positions nor the imports metadata, and
\* the second merge returns 0.
C1_IdempotentMerge ==
    [][RemergeStep =>
          /\ trades' = trades
          /\ actions' = actions
          /\ positions' = positions
          /\ imports' = imports
          /\ imported_count' = 0]_vars

\* C2: a row of the receiving ledger whose hash also occurs in the merged
\* ledger B is still in the trade table after the merge, with all its fields.
C2_ExistingCopyKept ==
    [][MergeStep =>
          \A i \in 1..Len(trades) :
              trades[i].Hash \in HashesOf(other'.trades)
                  => \E j \in 1..Len(trades') : trades'[j] = trades[i]]_vars

\* C3: no two rows of the trade table share a hash.
C3_UniqueHashes ==
    \A i, j \in 1..Len(trades) : trades[i].Hash = trades[j].Hash => i = j

\* C4: the count returned by merge_with is the growth of the trade table and
\* the number of distinct hashes of B that the receiving ledger did not have;
\* it never exceeds the number of rows of B.
C4_ImportedCount ==
    [][MergeStep =>
          /\ imported_count' = Len(trades') - Len(trades)
          /\ imported_count' =
                Cardinality(HashesOf(other'.trades) \ HashesOf(trades))
          /\ imported_count' <= Len(other'.trades)]_vars

\* C5: after merge_with the action table is B's rows followed by the
\* receiving ledger's rows, with exact duplicate rows removed.
C5_ActionsUnionDeduplicated ==
    [][MergeStep => actions' = drop_duplicates(other'.actions \o actions)]_vars

\* C6: when a merge with pair dropping enabled adds a trade, no pair dated at
\* or after the earliest added trade survives it.
C6_PairsInvalidated ==
    [][(MergeStep /\ drop_pairings') =>
          LET added == {k \in 1..Len(trades') :
                           trades'[k].Hash \notin HashesOf(trades)}
          IN  \A k \in added : \A p \in pairs' : p.Time < trades'[k].DateTime]_vars

---------------------------------------------------------------------------
(* Properties of adjust_for_splits.                                        *)

RECURSIVE ProdOver(_, _)
ProdOver(F, I) ==
    IF I = {} THEN One
    ELSE LET i == CHOOSE x \in I : TRUE
         IN  RMul(F[i], ProdOver(F, I \ {i}))

\* indices of the Split rows of the action table for the symbol of `row`
SplitsOf(row) ==
    {i \in 1..Len(actions) :
        actions[i].Action = "Split" /\ actions[i].Symbol = row.Symbol}

LaterSplitsOf(row) == {i \in SplitsOf(row) : actions[i].DateTime > row.DateTime}

\* the running product of ratios, by time, up to and including Split row i
RunningRatio(row, i) ==
    ProdOver([j \in 1..Len(actions) |-> actions[j].Ratio],
             {j \in SplitsOf(row) :
                 \/ actions[j].DateTime < actions[i].DateTime
                 \/ actions[j].DateTime = actions[i].DateTime /\ j <= i})

\* C7: after adjust_for_splits a trade's splitRatio is 1 / the least running
\* ratio among the later splits of its symbol, 1.0 when there is none (also
\* for an empty action table), quantity = origQuantity * splitRatio and
\* price = origPrice / splitRatio.
C7_SplitRatioRule ==
    lastOp = "adjust" =>
        \A k \in 1..Len(trades) :
            LET row == trades[k]
                later == LaterSplitsOf(row)
                expected == IF later = {} THEN One
                            ELSE RDiv(One, RMin({RunningRatio(row, i) : i \in later}))
            IN  /\ row.SplitRatio = expected
                /\ row.Quantity = RMul(row.OrigQuantity, row.SplitRatio)
                /\ row.TPrice = RDiv(row.OrigTPrice, row.SplitRatio)

\* the distinct splits of the symbol of `row` dated strictly after it
LaterSplitEvents(row) == {actions[i] : i \in LaterSplitsOf(row)}

\* shares after the event per share before it: N / M for "Split N for M"
SharesFactor(a) == Norm(a.Description.N, a.Description.M)

RECURSIVE CombinedFactor(_)
CombinedFactor(S) ==
    IF S = {} THEN One
    ELSE LET a == CHOOSE x \in S : TRUE
         IN  RMul(SharesFactor(a), CombinedFactor(S \ {a}))

\* C8: after adjust_for_splits a trade's quantity is origQuantity scaled by
\* the combined effect of exactly the splits of its symbol dated strictly
\* after the trade.
C8_CurrentShareTerms ==
    lastOp = "adjust" =>
        \A k \in 1..Len(trades) :
            trades[k].Quantity =
                RMul(trades[k].OrigQuantity, CombinedFactor(LaterSplitEvents(trades[k])))

\* C9: a trade followed by exactly one split of its symbol, "Split N for M",
\* has its quantity multiplied by N/M and its price divided by N/M, and
\* quantity * price is what it was before the adjustment.
C9_SingleLaterSplit ==
    lastOp = "adjust" =>
        \A k \in 1..Len(trades) :
            LET row == trades[k]
                later == LaterSplitEvents(row)
            IN  Cardinality(later) = 1 =>
                    LET f == SharesFactor(CHOOSE a \in later : TRUE)
                    IN  /\ row.Quantity = RMul(row.OrigQuantity, f)
                        /\ row.TPrice = RDiv(row.OrigTPrice, f)
                        /\ RMul(row.Quantity, row.TPrice) =
                              RMul(row.OrigQuantity, row.OrigTPrice)

\* C10: a second adjust_for_splits on the same trades with an unchanged
\* action table leaves splitRatio, quantity and price of every trade as the
\* first run set them.
C10_AdjustIdempotent ==
    [][(lastOp = "adjust" /\ lastOp' = "adjust" /\ actions' = actions) =>
          trades' = trades]_vars

\* adjust_for_splits has run twice on a trade that a split re-scaled
C10_Witness ==
    /\ lastOp = "adjust"
    /\ runs >= 2
    /\ \E k \in 1..Len(trades) :
          ~IsNaN(trades[k].SplitRatio) /\ trades[k].SplitRatio # One

---------------------------------------------------------------------------
(* normalize_trades applied to one table.                                  *)

\* the merge bookkeeping of a State that has merged nothing
NoMerges ==
    /\ imports = <<>>
    /\ pairs = {}
    /\ other = EmptyState
    /\ drop_pairings = TRUE
    /\ imported_count = 0
    /\ merges = 0
    /\ runs = 0

merging == <<imports, pairs, other, drop_pairings, imported_count, merges, runs>>

MaxConvertRows == 2

ConvertQuantities == {-1, 0, 1}

SuppliedTypes == {None, "Spinoff"}

\* tables without an Action column, as the Trades section gives them
CodedTables ==
    SeqsUpTo({TableRow("AAA", 1, Rat(q), Rat(4), code, None, type, None) :
                 q \in ConvertQuantities, code \in Codes, type \in SuppliedTypes},
             MaxConvertRows)

\* tables with an Action column, as transfers and manual trades have
ActionTables ==
    SeqsUpTo({TableRow("AAA", 1, Rat(q), Rat(4), None, action, type, "U2") :
                 q \in ConvertQuantities, action \in {"Open", "Close", "Transfer"},
                 type \in SuppliedTypes},
             MaxConvertRows)

InitConvert ==
    /\ input \in CodedTables \cup ActionTables
    /\ NoMerges
    /\ trades = <<>>
    /\ actions = <<>>
    /\ positions = <<>>
    /\ symbols = <<>>
    /\ dividends = <<>>
    /\ report = <<>>
    /\ raised = None
    /\ uploads = <<>>
    /\ errors = {}
    /\ filenames = <<>>
    /\ lastOp = "init"

\* trade.normalize_trades(df)
NormalizeTrades ==
    /\ lastOp = "init"
    /\ trades' = normalize_trades(input)
    /\ lastOp' = "normalize"
    /\ UNCHANGED <<actions, positions, symbols, dividends, input, report, raised,
                   uploads, errors, filenames>>
    /\ UNCHANGED merging

NextConvert == NormalizeTrades

SpecConvert == InitConvert /\ [][NextConvert]_vars

\* the Type the rule gives a row of the given Action and Quantity
DerivedType(action, q) ==
    IF IsZero(q) THEN None
    ELSE IF action = "Transfer" THEN (IF Positive(q) THEN "In" ELSE "Out")
    ELSE IF (action = "Close" /\ Negative(q)) \/ (action = "Open" /\ Positive(q))
         THEN "Long"
    ELSE "Short"

---------------------------------------------------------------------------
(* Statements with transfers and corporate actions, merged into a ledger.  *)

MaxImports == 2          \* statements merged into one ledger
MaxSectionRows == 1      \* rows of each section of such a statement

LedgerRawTrades ==
    {CodedTrade("AAA", 1, q, 4, code) : q \in {-1, 1}, code \in {"O", "C"}}

LedgerRawTransfers == {RawTransfer("AAA", 1, q, "U2") : q \in ConvertQuantities}

LedgerRawActions ==
    {ActionRow(text, 3, q, 4, 0) :
        text \in {SpinoffText("AAA", 1, 2, "BBB"), AcquisitionText("AAA", 5),
                  SplitText("AAA", 2, 1)},
        q \in {-1, 1}}

LedgerStatements ==
    {[Account |-> "U1", Period |-> TRUE, Trades |-> rows, Actions |-> acts,
      Transfers |-> xfers, Positions |-> <<>>] :
        rows \in SeqsUpTo(LedgerRawTrades, MaxSectionRows),
        acts \in SeqsUpTo(LedgerRawActions, MaxSectionRows),
        xfers \in SeqsUpTo(LedgerRawTransfers, MaxSectionRows)}

\* a statement is imported and merged into the session's State
ImportStatement ==
    /\ merges < MaxImports
    /\ \E file \in LedgerStatements :
          Merged(import_activity_statement(file), TRUE)
    /\ merges' = merges + 1
    /\ lastOp' = "merge"

NextLedger == ImportStatement

SpecLedger == Init /\ [][NextLedger]_vars

LedgerActions == {"Open", "Close", "Transfer", "Unknown"}

\* C18 as stated: every trade of the ledger has an action among Open, Close,
\* Transfer, Unknown and a type among Long, Short, In, Out, null.
C18_ActionTypeDomains ==
    \A i \in 1..Len(trades) :
        /\ trades[i].Action \in LedgerActions
        /\ trades[i].Type \in {"Long", "Short", "In", "Out", None}

\* C18 amended: every trade of the ledger has an action among Open, Close,
\* Transfer, Unknown; a Transfer has type In, Out or null; a trade generated
\* from a Spinoff or Acquisition action has that action's name as its type
\* and is an Open or a Close; every other trade has type Long, Short or null.
C18_ActionTypeDomainsAmended ==
    \A i \in 1..Len(trades) :
        /\ trades[i].Action \in LedgerActions
        /\ trades[i].Type \in {"Long", "Short", "In", "Out", "Spinoff", "Acquisition", None}
        /\ trades[i].Action = "Transfer" => trades[i].Type \in {"In", "Out", None}
        /\ trades[i].Type \in {"Spinoff", "Acquisition"} =>
              trades[i].Action \in {"Open", "Close"}
        /\ trades[i].Type \in {"In", "Out"} => trades[i].Action = "Transfer"

C18_Witness ==
    /\ \E i \in 1..Len(trades) : trades[i].Type = "Spinoff"
    /\ \E i \in 1..Len(trades) : trades[i].Type = "Acquisition"
    /\ \E i \in 1..Len(trades) : trades[i].Action = "Transfer" /\ trades[i].Type = "Out"

---------------------------------------------------------------------------
(* Symbol renames (State.apply_renames, State.detect_and_apply_renames).   *)

\* the missing timestamp
NaT == 0

\* a row of State.symbols; the Manual cell is "True", "False" or None (NaN)
SymbolEntry(sym, ticker, date, manual) ==
    [Symbol |-> sym, Ticker |-> ticker, ChangeDate |-> date, Currency |-> "USD",
     Manual |-> manual]

\* a variant that sorts the rows without a change date first
ChangeDateFirst(row) == row.ChangeDate

\* sort key of 'Change Date' with na_position='last'
ChangeDateKey(row) ==
    IF row.ChangeDate = NaT
    THEN 1 + CHOOSE t \in Times : \A u \in Times : u <= t
    ELSE row.ChangeDate

\* a variant that selects the change dates after the row's date only
covering_later(table, sym, d) ==
    SelectSeq(table, LAMBDA e : e.Symbol = sym /\ (e.ChangeDate = NaT \/ e.ChangeDate > d))

\* the rows of the symbols table rename_symbols selects for a row of symbol
\* sym dated d
covering(table, sym, d) ==
    SelectSeq(table, LAMBDA e : e.Symbol = sym /\ (e.ChangeDate = NaT \/ e.ChangeDate >= d))

\* the Ticker rename_symbols finds; None when no row is selected and iloc[0]
\* raises IndexError
renamed_ticker(table, sym, d) ==
    LET found == SortBy(covering(table, sym, d), ChangeDateKey)
    IN  IF found = <<>> THEN None ELSE found[1].Ticker

rename_symbols(table, df, date_column) ==
    SeqMap(df, LAMBDA row :
        [Ticker |-> renamed_ticker(table, row.Symbol, row[date_column])] @@ row)

\* rename_symbols raises for the table
rename_fails(table, df, date_column) ==
    \E i \in 1..Len(df) : renamed_ticker(table, df[i].Symbol, df[i][date_column]) = None

\* State.apply_renames: the tables of self after the call and the exception
\* it raised.  A trade table none of whose rows has a Manual value has no
\* Manual column.
apply_renames(self) ==
    LET manual(row) == IF "Manual" \in DOMAIN row THEN row.Manual ELSE None
        manual_trades == SelectSeq(self.trades, LAMBDA row : manual(row) = "True")
        imported == SelectSeq(self.trades, LAMBDA row : manual(row) = "False")
        t1 == [self EXCEPT !.trades = rename_symbols(self.symbols, imported, "DateTime")
                                          \o manual_trades]
        t2 == [t1 EXCEPT !.positions = rename_symbols(self.symbols, self.positions, "Date")]
        t3 == [t2 EXCEPT !.dividends = rename_symbols(self.symbols, self.dividends, "Date")]
    IN  IF \A i \in 1..Len(self.trades) : manual(self.trades[i]) = None
        THEN [self EXCEPT !.raised = "KeyError"]
        ELSE IF rename_fails(self.symbols, imported, "DateTime")
        THEN [self EXCEPT !.raised = "IndexError"]
        ELSE IF rename_fails(self.symbols, self.positions, "Date")
        THEN [t1 EXCEPT !.raised = "IndexError"]
        ELSE IF rename_fails(self.symbols, self.dividends, "Date")
        THEN [t2 EXCEPT !.raised = "IndexError"]
        ELSE [t3 EXCEPT !.raised = None]

\* the columns of a symbols row; Symbol is the index
SymbolColumns(row) == <<row.Ticker, row.ChangeDate, row.Currency, row.Manual>>

SymbolOrder == <<"AAA", "BBB">>

SymbolRank(row) == CHOOSE i \in 1..Len(SymbolOrder) : SymbolOrder[i] = row.Symbol

\* State.detect_and_apply_renames with the table read from renames.csv
detect_and_apply_renames(self, renames) ==
    LET kept_symbols == SelectSeq(self.symbols,
                            LAMBDA e : e.ChangeDate = NaT \/ e.Manual = "True")
        known(sym) == \E i \in 1..Len(self.symbols) : self.symbols[i].Symbol = sym
        kept(sym) == SelectSeq(kept_symbols, LAMBDA e : e.Symbol = sym)
        active_renames == SelectSeq(renames, LAMBDA r : known(r.Symbol))
        with_currency == SeqMap(active_renames,
                            LAMBDA r : [r EXCEPT !.Currency = kept(r.Symbol)[1].Currency])
        sorted == SortBy(SortBy(KeepFirst(kept_symbols \o with_currency, SymbolColumns),
                                SymbolRank),
                         ChangeDateKey)
        applied == apply_renames([self EXCEPT !.symbols = sorted])
    IN  IF \E i \in 1..Len(active_renames) : kept(active_renames[i].Symbol) = <<>>
        THEN [self EXCEPT !.raised = "KeyError"]
        ELSE IF Len(renames) = 0
        THEN [self EXCEPT !.symbols = sorted, !.raised = None]
        ELSE IF applied.raised # None THEN applied
        ELSE [applied EXCEPT !.raised = "TypeError"]

MaxSymbolRows == 2       \* rows of the symbols table at the start
MaxRenameTrades == 1     \* trade rows of the ledger being renamed
MaxRenameRows == 1       \* rows of renames.csv

\* rows the symbols table can hold: the entry recompute_positions generates
\* for a symbol, manual entries, and entries detected from the rename history
SymbolEntries ==
    {SymbolEntry("AAA", "AAA", NaT, None), SymbolEntry("BBB", "BBB", NaT, None),
     SymbolEntry("AAA", "MAN", NaT, "True"), SymbolEntry("AAA", "MAN", 2, "True"),
     SymbolEntry("AAA", "NEW", 2, "False"), SymbolEntry("AAA", "NWR", 3, "False"),
     SymbolEntry("BBB", "NEW", 2, "False")}

\* renames.csv after the column renames; Currency is filled in later
RenameHistories ==
    SeqsUpTo({[SymbolEntry("AAA", "NEW", 2, "False") EXCEPT !.Currency = None],
              [SymbolEntry("AAA", "NWR", 3, "False") EXCEPT !.Currency = None],
              [SymbolEntry("BBB", "NEW", 2, "False") EXCEPT !.Currency = None]},
             MaxRenameRows)

\* a purchase of AAA as the ledger holds it, with its Manual cell
RenameTrades ==
    {[Manual |-> m, Ticker |-> "AAA"] @@
     import_trades([Trades |-> <<RawTrade("AAA", t, 2, 4)>>])[1] :
        t \in Times, m \in {"True", "False", None}}

RenameSnapshots ==
    SeqsUpTo({[Symbol |-> "AAA", Date |-> 2, Quantity |-> 2, Account |-> "U1"]}, 1)

InitRenames ==
    /\ symbols \in SeqsUpTo(SymbolEntries, MaxSymbolRows)
    /\ trades \in SeqsUpTo(RenameTrades, MaxRenameTrades)
    /\ positions \in RenameSnapshots
    /\ dividends \in RenameSnapshots
    /\ NoMerges
    /\ actions = <<>>
    /\ input = <<>>
    /\ report = <<>>
    /\ raised = None
    /\ uploads = <<>>
    /\ errors = {}
    /\ filenames = <<>>
    /\ lastOp = "init"

Renaming ==
    [trades |-> trades, positions |-> positions, dividends |-> dividends,
     symbols |-> symbols, raised |-> raised]

Renamed(after) ==
    /\ trades' = after.trades
    /\ positions' = after.positions
    /\ dividends' = after.dividends
    /\ symbols' = after.symbols
    /\ raised' = after.raised
    /\ UNCHANGED <<actions, report, uploads, errors, filenames>>
    /\ UNCHANGED merging

\* State.apply_renames()
ApplyRenames ==
    /\ Renamed(apply_renames(Renaming))
    /\ lastOp' = "apply_renames"
    /\ UNCHANGED input

\* State.detect_and_apply_renames()
DetectAndApplyRenames ==
    \E renames \in RenameHistories :
        /\ Renamed(detect_and_apply_renames(Renaming, renames))
        /\ lastOp' = "detect_and_apply_renames"
        /\ input' = renames

NextRenames == ApplyRenames \/ DetectAndApplyRenames

SpecRenames == InitRenames /\ [][NextRenames]_vars

\* the rows apply_renames has renamed: imported trades by 'Date/Time',
\* positions and dividends by 'Date'
RenamedRows ==
    {<<trades[i].Symbol, trades[i].DateTime, trades[i].Ticker>> :
        i \in {k \in 1..Len(trades) : trades[k].Manual = "False"}}
    \cup {<<positions[i].Symbol, positions[i].Date, positions[i].Ticker>> :
            i \in 1..Len(positions)}
    \cup {<<dividends[i].Symbol, dividends[i].Date, dividends[i].Ticker>> :
            i \in 1..Len(dividends)}

\* entries of symbol sym with a change date at or after d
DatedCover(sym, d) ==
    {i \in 1..Len(symbols) : /\ symbols[i].Symbol = sym
                             /\ symbols[i].ChangeDate # NaT
                             /\ symbols[i].ChangeDate >= d}

Undated(sym) ==
    {i \in 1..Len(symbols) : symbols[i].Symbol = sym /\ symbols[i].ChangeDate = NaT}

OnlyRename ==
    {<<k, i>> \in (1..Len(trades)) \X (1..Len(symbols)) :
        /\ trades[k].Manual = "False"
        /\ symbols[i].Symbol = trades[k].Symbol
        /\ symbols[i].ChangeDate # NaT
        /\ \A j \in 1..Len(symbols) :
              (symbols[j].Symbol = trades[k].Symbol /\ symbols[j].ChangeDate # NaT)
                  => j = i}

C13_ManualNotSuperseded ==
    [][(lastOp' = "detect_and_apply_renames" /\ raised' \in {None, "TypeError"}) =>
          /\ \A i \in 1..Len(symbols) :
                symbols[i].Manual = "True" =>
                    \E j \in 1..Len(symbols') : symbols'[j] = symbols[i]
          /\ Len(input') > 0 =>
                \A k \in 1..Len(trades') :
                    LET manual == {j \in 1..Len(symbols') :
                                      /\ symbols'[j].Symbol = trades'[k].Symbol
                                      /\ symbols'[j].Manual = "True"}
                    IN  (trades'[k].Manual = "False" /\ manual # {}) =>
                            \E j \in manual : trades'[k].Ticker = symbols'[j].Ticker
      ]_vars

---------------------------------------------------------------------------
(* Accumulated positions and the queries over them (matchmaker.trade).     *)

MaxLedgerRows == 3       \* trade rows of the table positions are computed for
MaxTransferRows == 3     \* rows of the table the transfer query is given

\* a variant that groups by Ticker alone
TickerKey(row) == <<row.Ticker>>

\* the group of the 'Accumulated Quantity' running sum
InstrumentKey(row) == <<row.Ticker, row.DisplaySuffix>>

AccountKey(row) == <<row.Account, row.Ticker, row.DisplaySuffix>>

\* trade.compute_accumulated_positions(trades, symbols)
compute_accumulated_positions(tr, syms) ==
    LET sorted == SortBy(tr, DateTimeOf)
        cumsum(i, K(_)) ==
            LET F[j \in 0..i] ==
                    IF j = 0 THEN Rat(0)
                    ELSE IF K(sorted[j]) = K(sorted[i])
                         THEN RAdd(F[j - 1], sorted[j].Quantity)
                         ELSE F[j - 1]
            IN  F[i]
    IN  [i \in 1..Len(sorted) |->
            [AccumulatedQuantity |-> cumsum(i, InstrumentKey),
             AccountAccumulatedQuantity |-> cumsum(i, AccountKey)] @@ sorted[i]]

\* trade.positions_with_missing_transactions(trades)
positions_with_missing_transactions(tr) ==
    SelectSeq(tr, LAMBDA row :
        \/ (Negative(row.AccumulatedQuantity) /\ row.Type = "Long" /\ row.Action = "Close")
        \/ (Positive(row.AccumulatedQuantity) /\ row.Type = "Short" /\ row.Action = "Close"))

\* (Ticker, Display Suffix, Account): a share held in two accounts and an
\* option on it held in one
Instruments ==
    {<<"AAA", "", "U1">>, <<"AAA", "", "U2">>, <<"AAA", " 20SEP24 40 Put", "U1">>}

\* the rows of a ledger after import and renaming: purchases and sales that
\* open or close a position
PositionRows ==
    {[Ticker |-> k[1], DisplaySuffix |-> k[2], Account |-> k[3]] @@
     import_trades([Trades |-> <<CodedTrade("AAA", t, cq[2], 4, cq[1])>>])[1] :
        k \in Instruments, t \in {1, 2},
        cq \in {<<"O", 1>>, <<"O", -1>>, <<"C", 1>>, <<"C", -1>>}}

\* tables without repeated rows
Distinct(S, n) ==
    {s \in SeqsUpTo(S, n) : \A i, j \in 1..Len(s) : s[i] = s[j] => i = j}

InitPositions ==
    /\ trades \in Distinct(PositionRows, MaxLedgerRows)
    /\ NoMerges
    /\ actions = <<>>
    /\ positions = <<>>
    /\ symbols = <<>>
    /\ dividends = <<>>
    /\ input = <<>>
    /\ report = <<>>
    /\ raised = None
    /\ uploads = <<>>
    /\ errors = {}
    /\ filenames = <<>>
    /\ lastOp = "init"

\* trade.compute_accumulated_positions(self.trades, self.symbols)
ComputeAccumulatedPositions ==
    /\ lastOp = "init"
    /\ trades' = compute_accumulated_positions(trades, symbols)
    /\ lastOp' = "accumulate"
    /\ UNCHANGED <<actions, positions, symbols, dividends, input, report, raised,
                   uploads, errors, filenames>>
    /\ UNCHANGED merging

\* trade.positions_with_missing_transactions(self.trades)
PositionsWithMissingTransactions ==
    /\ lastOp = "accumulate"
    /\ report' = positions_with_missing_transactions(trades)
    /\ lastOp' = "positions_query"
    /\ UNCHANGED <<trades, actions, positions, symbols, dividends, input, raised,
                   uploads, errors, filenames>>
    /\ UNCHANGED merging

NextPositions == ComputeAccumulatedPositions \/ PositionsWithMissingTransactions

SpecPositions == InitPositions /\ [][NextPositions]_vars

\* the sum of the (whole) quantities of the rows of trades at the indices I
RECURSIVE QuantitySum(_)
QuantitySum(I) ==
    IF I = {} THEN 0
    ELSE LET i == CHOOSE x \in I : TRUE
         IN  trades[i].Quantity[1] + QuantitySum(I \ {i})

\* C14: after compute_accumulated_positions the rows are in timestamp order,
\* a row's accumulatedQuantity is the sum of quantity over the rows of its
\* (ticker, displaySuffix) up to and including it, and its
\* accountAccumulatedQuantity the same sum over the rows of its account.
C14_AccumulatedQuantities ==
    lastOp = "accumulate" =>
        /\ \A i \in 1..(Len(trades) - 1) : trades[i].DateTime <= trades[i + 1].DateTime
        /\ \A i \in 1..Len(trades) :
              LET same == {j \in 1..i : /\ trades[j].Ticker = trades[i].Ticker
                                        /\ trades[j].DisplaySuffix = trades[i].DisplaySuffix}
                  own == {j \in same : trades[j].Account = trades[i].Account}
              IN  /\ trades[i].AccumulatedQuantity = Rat(QuantitySum(same))
                  /\ trades[i].AccountAccumulatedQuantity = Rat(QuantitySum(own))

C14_Witness ==
    /\ lastOp = "accumulate"
    /\ Len(trades) = 3
    /\ trades[1].DateTime < trades[3].DateTime
    /\ trades[3].AccumulatedQuantity = Rat(2)
    /\ trades[3].AccountAccumulatedQuantity = Rat(1)
    /\ trades[2].DisplaySuffix # trades[3].DisplaySuffix

\* every row is a long trade and, for every Close, the opens of its
\* instrument dated at or before it make up for the closes dated at or
\* before it
FullyCovered ==
    /\ \A i \in 1..Len(trades) : trades[i].Type = "Long"
    /\ \A i \in 1..Len(trades) :
          trades[i].Action = "Close" =>
              QuantitySum({j \in 1..Len(trades) :
                              /\ trades[j].Ticker = trades[i].Ticker
                              /\ trades[j].DisplaySuffix = trades[i].DisplaySuffix
                              /\ trades[j].DateTime <= trades[i].DateTime}) >= 0

\* C15: positions_with_missing_transactions returns exactly the Close rows
\* of type Long with negative and of type Short with positive
\* accumulatedQuantity, and nothing for a history whose every close is
\* covered by opens of its instrument dated at or before it.
C15_MissingTransactions ==
    lastOp = "positions_query" =>
        /\ report = SelectSeq(trades, LAMBDA row :
                        /\ row.Action = "Close"
                        /\ \/ (row.Type = "Long" /\ row.AccumulatedQuantity[1] < 0)
                           \/ (row.Type = "Short" /\ row.AccumulatedQuantity[1] > 0))
        /\ FullyCovered => report = <<>>

---------------------------------------------------------------------------
(* Unmatched transfers (trade.transfers_with_missing_transactions).        *)

\* accounts a transfer can name; U3 has no statement of its own
TransferAccounts == Accounts \cup {"U3"}

\* State.recompute_positions: Display Name = Ticker + Display Suffix
DisplayNamed(row) == [DisplayName |-> row.Ticker] @@ row

\* transfers between accounts as import_activity_statement books them, and a
\* purchase, under the names the ledger displays
TransferRows ==
    {DisplayNamed([Ticker |-> sym, Account |-> a] @@
        import_transfers([Transfers |-> <<RawTransfer(sym, 1, q, x)>>])[1]) :
        sym \in {"AAA", "BBB"}, q \in {-1, 1, 2},
        <<a, x>> \in {ax \in Accounts \X TransferAccounts : ax[1] # ax[2]}}
    \cup
    {DisplayNamed([Ticker |-> "AAA", Account |-> "U1"] @@
        import_trades([Trades |-> <<RawTrade("AAA", 1, 1, 4)>>])[1])}

AccountOf(row) == row.Account

TargetOf(row) == row.Target

\* a variant that keeps every group with a residual
has_residual(r) == ~IsZero(r)

\* unmatched_outgoing[unmatched_outgoing < 0]
is_unmatched_outgoing(r) == Negative(r)

\* unmatched_incoming[unmatched_incoming > 0]
is_unmatched_incoming(r) == Positive(r)

\* df.groupby(['Display Name', key])['Quantity'].sum(): the groups (rows with
\* a null key are left out) and the sum of a group, 0 for a group not there
GroupKeys(df, K(_)) ==
    {<<df[i].DisplayName, K(df[i])>> : i \in {j \in 1..Len(df) : K(df[j]) # None}}

GroupSum(df, K(_), g) ==
    LET F[i \in 0..Len(df)] ==
            IF i = 0 THEN Rat(0)
            ELSE IF <<df[i].DisplayName, K(df[i])>> = g
                 THEN RAdd(F[i - 1], df[i].Quantity)
                 ELSE F[i - 1]
    IN  F[Len(df)]

\* a.add(b, fill_value=0) of two grouped sums, as the set of (group, value)
GroupedAdd(a, Ka(_), b, Kb(_)) ==
    {<<g, RAdd(GroupSum(a, Ka, g), GroupSum(b, Kb, g))>> :
        g \in GroupKeys(a, Ka) \cup GroupKeys(b, Kb)}

\* trade.transfers_with_missing_transactions(trades); pair is FALSE when the
\* table has no Target column and one empty frame is returned
transfers_with_missing_transactions(tr) ==
    LET transfers == SelectSeq(tr, LAMBDA row : row.Action = "Transfer" /\ row.Type # "Spinoff")
        outgoing == SelectSeq(transfers, LAMBDA row : row.Type = "Out")
        incoming == SelectSeq(transfers, LAMBDA row : row.Type = "In")
        unmatched_outgoing ==
            {s \in GroupedAdd(outgoing, TargetOf, incoming, AccountOf) :
                is_unmatched_outgoing(s[2])}
        unmatched_incoming ==
            {s \in GroupedAdd(incoming, TargetOf, outgoing, AccountOf) :
                is_unmatched_incoming(s[2])}
    IN  IF \E i \in 1..Len(tr) : tr[i].Target # None
        THEN [pair |-> TRUE, incoming |-> unmatched_incoming, outgoing |-> unmatched_outgoing]
        ELSE [pair |-> FALSE, incoming |-> {}, outgoing |-> {}]

InitTransfers ==
    /\ trades \in Distinct(TransferRows, MaxTransferRows)
    /\ NoMerges
    /\ actions = <<>>
    /\ positions = <<>>
    /\ symbols = <<>>
    /\ dividends = <<>>
    /\ input = <<>>
    /\ report = <<>>
    /\ raised = None
    /\ uploads = <<>>
    /\ errors = {}
    /\ filenames = <<>>
    /\ lastOp = "init"

\* trade.transfers_with_missing_transactions(self.trades)
TransfersWithMissingTransactions ==
    /\ lastOp = "init"
    /\ report' = transfers_with_missing_transactions(trades)
    /\ lastOp' = "transfers_query"
    /\ UNCHANGED <<trades, actions, positions, symbols, dividends, input, raised,
                   uploads, errors, filenames>>
    /\ UNCHANGED merging

NextTransfers == TransfersWithMissingTransactions

SpecTransfers == InitTransfers /\ [][NextTransfers]_vars

\* the transfer rows of the ledger of the given type and name
TransfersOf(type, name) ==
    {i \in 1..Len(trades) : /\ trades[i].Action = "Transfer"
                            /\ trades[i].Type = type
                            /\ trades[i].DisplayName = name}

\* outgoing quantities declared towards the account plus incoming
\* quantities booked in it
TowardsResidual(name, acct) ==
    QuantitySum({i \in TransfersOf("Out", name) : trades[i].Target = acct})
    + QuantitySum({i \in TransfersOf("In", name) : trades[i].Account = acct})

\* incoming quantities declared as coming from the account plus outgoing
\* quantities booked in it
FromResidual(name, acct) ==
    QuantitySum({i \in TransfersOf("In", name) : trades[i].Target = acct})
    + QuantitySum({i \in TransfersOf("Out", name) : trades[i].Account = acct})

ReportedGroups(series) == {s[1] : s \in series}

\* an outgoing transfer i and an incoming transfer j of the same name and
\* size, j booked in i's target and naming i's account, and no other transfer
OffsetPair(i, j) ==
    /\ i \in TransfersOf("Out", trades[i].DisplayName)
    /\ j \in TransfersOf("In", trades[i].DisplayName)
    /\ trades[j].Account = trades[i].Target
    /\ trades[j].Target = trades[i].Account
    /\ trades[i].Quantity[1] + trades[j].Quantity[1] = 0
    /\ \A k \in 1..Len(trades) : trades[k].Action = "Transfer" => k \in {i, j}

GroupNames == {"AAA", "BBB"} \X TransferAccounts

\* C16: a group (instrument, counter-account) is reported if and only if
\* the outgoing quantities declared towards the account plus the incoming
\* quantities booked in it are non-zero, and a transfer out offset by a
\* transfer of the same size into its target account is not reported.
C16_NonZeroResidual ==
    lastOp = "transfers_query" =>
        /\ \A g \in GroupNames :
              g \in ReportedGroups(report.incoming \cup report.outgoing)
                  <=> TowardsResidual(g[1], g[2]) # 0
        /\ \A i, j \in 1..Len(trades) :
              OffsetPair(i, j) => report.incoming \cup report.outgoing = {}

\* C16 (amended): the unmatched outgoing groups are those whose outgoing
\* quantities towards the account plus incoming quantities booked in it are
\* below zero; the unmatched incoming groups are those whose incoming
\* quantities declared from the account plus outgoing quantities booked in
\* it are above zero; an offset pair with no other transfer is in neither.
C16_SignedResiduals ==
    lastOp = "transfers_query" =>
        /\ \A g \in GroupNames :
              /\ g \in ReportedGroups(report.outgoing) <=> TowardsResidual(g[1], g[2]) < 0
              /\ g \in ReportedGroups(report.incoming) <=> FromResidual(g[1], g[2]) > 0
        /\ \A s \in report.outgoing : s[2] = Rat(TowardsResidual(s[1][1], s[1][2]))
        /\ \A s \in report.incoming : s[2] = Rat(FromResidual(s[1][1], s[1][2]))
        /\ \A i, j \in 1..Len(trades) :
              OffsetPair(i, j) => report.incoming \cup report.outgoing = {}

C16_Witness ==
    /\ lastOp = "transfers_query"
    /\ report.pair
    /\ report.outgoing # {}
    /\ report.incoming # {}
    /\ \E g \in GroupNames :
          /\ TowardsResidual(g[1], g[2]) > 0
          /\ g \notin ReportedGroups(report.outgoing)

---------------------------------------------------------------------------
(* The import page (pages/1_import_trades.py): the loop over the uploaded  *)
(* files.  merges counts the files the loop has taken up, errors holds the *)
(* names st.error was called for, raised the exception that ended main.    *)

MaxUploads == 2

UploadNames == <<"a.csv", "b.csv">>

\* activity statements as uploaded: with or without the Period line, with an
\* account id, an alias that is no account id, or no Account row
PageStatements ==
    {[Account |-> a, Period |-> p, Trades |-> <<RawTrade("AAA", t, 1, 4)>>,
      Actions |-> <<>>, Transfers |-> <<>>, Positions |-> <<>>] :
        a \in {"U1", "Alias", None}, p \in BOOLEAN, t \in {1, 2}}

Batches ==
    {[i \in 1..Len(b) |-> [Name |-> UploadNames[i], Body |-> b[i]]] :
        b \in SeqsUpTo(PageStatements, MaxUploads)}

\* import_trade_file(file) for a file whose first line does not start with
\* 'Hash': the State import_activity_statement returns, or, when it raises,
\* st.error and an empty DataFrame
import_trade_file(file) ==
    IF import_failure(file.Body) # None
    THEN [reported |-> TRUE, kind |-> "DataFrame", columns |-> 0]
    ELSE [reported |-> FALSE, kind |-> "State",
          state |-> import_activity_statement(file.Body)]

\* imported_trades, imported_actions = <result>: a DataFrame unpacks into its
\* column labels, a State is not iterable
unpack_pair(result) ==
    IF result.kind = "DataFrame"
    THEN (IF result.columns = 2 THEN None ELSE "ValueError")
    ELSE "TypeError"

InitPage ==
    /\ uploads \in Batches
    /\ trades = <<>>
    /\ actions = <<>>
    /\ positions = <<>>
    /\ NoMerges
    /\ symbols = <<>>
    /\ dividends = <<>>
    /\ input = <<>>
    /\ report = <<>>
    /\ raised = None
    /\ errors = {}
    /\ filenames = <<>>
    /\ lastOp = "init"

\* one pass of the loop body; the statements after the unpacking are reached
\* by no result import_trade_file has
ImportFile ==
    /\ raised = None
    /\ merges < Len(uploads)
    /\ LET file == uploads[merges + 1]
           result == import_trade_file(file)
       IN  /\ errors' = IF result.reported THEN errors \cup {file.Name} ELSE errors
           /\ raised' = unpack_pair(result)
    /\ merges' = merges + 1
    /\ lastOp' = "import_file"
    /\ UNCHANGED <<trades, actions, positions, symbols, dividends, input, report, uploads,
                   filenames>>
    /\ UNCHANGED <<imports, pairs, other, drop_pairings, imported_count, runs>>

\* after the loop: actions.drop_duplicates(); the session keeps the tables
FinishImport ==
    /\ raised = None
    /\ merges = Len(uploads)
    /\ lastOp # "page_done"
    /\ actions' = KeepFirst(actions, LAMBDA a : a)
    /\ lastOp' = "page_done"
    /\ UNCHANGED <<trades, positions, symbols, dividends, input, report, raised,
                   uploads, errors, filenames>>
    /\ UNCHANGED merging

NextPage == ImportFile \/ FinishImport

SpecPage == InitPage /\ [][NextPage]_vars

\* the files of the batch that import_activity_statement rejects
FailedFiles == {i \in 1..Len(uploads) : import_failure(uploads[i].Body) # None}

\* the loop has ended: every file was taken up or an exception ended main
LoopOver == merges = Len(uploads) \/ raised # None

\* C19: when a file of the batch has an unrecognized layout or lacks the
\* account information, the failure is reported for that file only: no
\* exception ends the loop, every file is taken up, the trades of the other
\* files are merged into the ledger and the failed file adds none.
C19_FailureIsolated ==
    (FailedFiles # {} /\ LoopOver) =>
        /\ raised = None
        /\ merges = Len(uploads)
        /\ errors = {uploads[i].Name : i \in FailedFiles}
        /\ \A i \in 1..Len(uploads) :
              LET rows == import_trades(uploads[i].Body)
              IN  i \notin FailedFiles =>
                      \A k \in 1..Len(rows) :
                          \E j \in 1..Len(trades) : trades[j].Hash = rows[k].Hash

---------------------------------------------------------------------------
(* Lot matching (matchmaker.pairing.pair_buy_sell): the closes of a stream *)
(* of chronologically ordered trades are matched against its open lots.    *)

MaxPairingRows == 3

Strategies == {"fifo", "lifo", "average-cost", "max-loss", "max-profit"}

\* purchases that open and sales that close a long position
PairingRows ==
    {import_trades([Trades |-> <<CodedTrade(sym, t, q, p, "O")>>])[1] :
        sym \in {"AAA", "BBB"}, t \in {1, 2}, q \in {1, 2}, p \in {4, 6}}
    \cup
    {import_trades([Trades |-> <<CodedTrade(sym, t, q, 5, "C")>>])[1] :
        sym \in {"AAA", "BBB"}, t \in {1, 2}, q \in {-1, -2, -3}}

\* a variant that matches the whole close against the selected lot
whole_quantity(q, remaining) == q

\* match quantity = min(q, lot.remainingQuantity)
match_quantity(q, remaining) == IF q < remaining THEN q ELSE remaining

\* a <= b in the lexicographic order of two tuples of the same length
RECURSIVE LexLeq(_, _)
LexLeq(a, b) ==
    IF a = <<>> THEN TRUE
    ELSE IF Head(a) # Head(b) THEN Head(a) < Head(b)
    ELSE LexLeq(Tail(a), Tail(b))

\* a variant that ranks the latest lot first under every strategy
lot_rank_latest(strategy, tr, lots, l) == <<-tr[l].DateTime, lots[l], l>>

\* a variant that ranks the earliest lot first under every strategy
lot_rank_earliest(strategy, tr, lots, l) == <<tr[l].DateTime, lots[l], l>>

\* the rank of the open lot l of the table under the strategy; the lot of
\* the lowest rank is selected: the strategy's choice, then the earlier
\* timestamp, then the smaller remaining quantity
lot_rank(strategy, tr, lots, l) ==
    <<CASE strategy = "lifo" -> -tr[l].DateTime
        [] strategy = "max-loss" -> -tr[l].TPrice[1]
        [] strategy = "max-profit" -> tr[l].TPrice[1]
        [] OTHER -> tr[l].DateTime,
      tr[l].DateTime, lots[l], l>>

\* the lots and pairs after the close c with q still to match; st.pool is
\* the quantity of the one synthetic lot of the average-cost strategy, and a
\* pair of that strategy names the lot 0
RECURSIVE match_close(_, _, _, _, _)
match_close(strategy, tr, st, c, q) ==
    LET candidates == {l \in 1..(c - 1) : st.lots[l] > 0 /\ tr[l].Symbol = tr[c].Symbol}
    IN  IF strategy = "average-cost"
        THEN LET pool == st.pool[tr[c].Symbol]
                 m == match_quantity(q, pool)
             IN  IF q = 0 \/ pool <= 0
                 THEN [st EXCEPT !.uncovered[c] = q]
                 ELSE [st EXCEPT !.pool[tr[c].Symbol] = @ - m,
                                 !.pairs = @ \cup {[Open |-> 0, Close |-> c,
                                                    MatchedQuantity |-> m]},
                                 !.uncovered[c] = q - m]
        ELSE IF q = 0 \/ candidates = {}
        THEN [st EXCEPT !.uncovered[c] = q]
        ELSE LET l == CHOOSE x \in candidates :
                          \A y \in candidates :
                              LexLeq(lot_rank(strategy, tr, st.lots, x),
                                     lot_rank(strategy, tr, st.lots, y))
                 m == match_quantity(q, st.lots[l])
             IN  match_close(strategy, tr,
                             [st EXCEPT !.lots[l] = @ - m,
                                        !.pairs = @ \cup {[Open |-> l, Close |-> c,
                                                           MatchedQuantity |-> m]}],
                             c, q - m)

\* pair_buy_sell(trades, ..., strategy, ...): the trades are taken in order;
\* an Open adds a lot, a Close is matched
pair_buy_sell(tr, strategy) ==
    LET F[i \in 0..Len(tr)] ==
            IF i = 0
            THEN [lots |-> [l \in 1..Len(tr) |-> 0],
                  pool |-> [s \in {"AAA", "BBB"} |-> 0],
                  pairs |-> {},
                  uncovered |-> [l \in 1..Len(tr) |-> 0]]
            ELSE IF tr[i].Action = "Open"
                 THEN [F[i - 1] EXCEPT !.lots[i] = tr[i].Quantity[1],
                                       !.pool[tr[i].Symbol] = @ + tr[i].Quantity[1]]
                 ELSE match_close(strategy, tr, F[i - 1], i, Abs(tr[i].Quantity[1]))
    IN  F[Len(tr)]

InitPairing ==
    /\ trades \in {s \in SeqsUpTo(PairingRows, MaxPairingRows) :
                      \A i \in 1..(Len(s) - 1) : s[i].DateTime <= s[i + 1].DateTime}
    /\ NoMerges
    /\ actions = <<>>
    /\ positions = <<>>
    /\ symbols = <<>>
    /\ dividends = <<>>
    /\ input = None
    /\ report = <<>>
    /\ raised = None
    /\ uploads = <<>>
    /\ errors = {}
    /\ filenames = <<>>
    /\ lastOp = "init"

\* buys, sells, sell_buy_pairs = pair_buy_sell(trades, ..., strategy, ...):
\* pairs holds the pairs, report the 'Uncovered Quantity' of every row
PairBuySell ==
    /\ lastOp = "init"
    /\ \E strategy \in Strategies :
          LET paired == pair_buy_sell(trades, strategy)
          IN  /\ pairs' = paired.pairs
              /\ report' = paired.uncovered
              /\ input' = strategy
    /\ lastOp' = "pair_buy_sell"
    /\ UNCHANGED <<trades, actions, positions, symbols, dividends, raised, uploads, errors, filenames>>
    /\ UNCHANGED <<imports, other, drop_pairings, imported_count, merges, runs>>

NextPairing == PairBuySell

SpecPairing == InitPairing /\ [][NextPairing]_vars

\* the sum of MatchedQuantity over a set of pairs
RECURSIVE MatchedSum(_)
MatchedSum(P) ==
    IF P = {} THEN 0
    ELSE LET p == CHOOSE x \in P : TRUE
         IN  p.MatchedQuantity + MatchedSum(P \ {p})

\* C20: for every Close trade, under every strategy, the matched quantities
\* of its pairs sum to at most abs(quantity); the remainder is recorded as
\* its uncovered quantity, the sum equals abs(quantity) if and only if the
\* uncovered quantity is 0, and no lot is fabricated: the pairs up to a
\* close never match more than the opens of its symbol before it hold, and
\* a lot is never matched beyond its own quantity.
C20_Conservation ==
    lastOp = "pair_buy_sell" =>
        /\ \A c \in 1..Len(trades) :
              trades[c].Action = "Close" =>
                  LET matched == MatchedSum({p \in pairs : p.Close = c})
                      q == Abs(trades[c].Quantity[1])
                  IN  /\ matched <= q
                      /\ report[c] = q - matched
                      /\ matched = q <=> report[c] = 0
                      /\ MatchedSum({p \in pairs :
                                        /\ p.Close <= c
                                        /\ trades[p.Close].Symbol = trades[c].Symbol})
                           <= QuantitySum({l \in 1..(c - 1) :
                                              /\ trades[l].Action = "Open"
                                              /\ trades[l].Symbol = trades[c].Symbol})
        /\ \A p \in pairs :
              /\ p.MatchedQuantity > 0
              /\ trades[p.Close].Action = "Close"
              /\ p.Open # 0 =>
                    /\ trades[p.Open].Action = "Open"
                    /\ trades[p.Open].Symbol = trades[p.Close].Symbol
                    /\ MatchedSum({x \in pairs : x.Open = p.Open})
                         <= trades[p.Open].Quantity[1]

C20_Witness ==
    /\ lastOp = "pair_buy_sell"
    /\ input = "max-loss"
    /\ \E c \in 1..Len(trades) :
          /\ trades[c].Action = "Close"
          /\ report[c] = 1
          /\ MatchedSum({p \in pairs : p.Close = c}) = 2
          /\ \E p \in pairs : p.Close = c /\ p.Open = 2

---------------------------------------------------------------------------
(* Lot matching over lots of 5 and 10: the order in which FIFO and LIFO    *)
(* consume the open lots of an instrument.                                 *)

MaxLotRows == 4

\* purchases of 5 or 10 at the instants 1..3, sales of 5 or 15 at 2..4
LotRows ==
    {import_trades([Trades |-> <<CodedTrade("AAA", t, q, 4, "O")>>])[1] :
        t \in {1, 2, 3}, q \in {5, 10}}
    \cup
    {import_trades([Trades |-> <<CodedTrade("AAA", t, q, 5, "C")>>])[1] :
        t \in {2, 3, 4}, q \in {-5, -15}}

InitLots ==
    /\ trades \in {s \in SeqsUpTo(LotRows, MaxLotRows) :
                      \A i \in 1..(Len(s) - 1) : s[i].DateTime <= s[i + 1].DateTime}
    /\ NoMerges
    /\ actions = <<>>
    /\ positions = <<>>
    /\ symbols = <<>>
    /\ dividends = <<>>
    /\ input = None
    /\ report = <<>>
    /\ raised = None
    /\ uploads = <<>>
    /\ errors = {}
    /\ filenames = <<>>
    /\ lastOp = "init"

SpecLots == InitLots /\ [][NextPairing]_vars

\* opens of 10 at t1 < t2 < t3 and a close of 15 after them
LotFixture ==
    /\ Len(trades) = 4
    /\ \A i \in 1..3 : /\ trades[i].Action = "Open"
                       /\ trades[i].Quantity = Rat(10)
                       /\ trades[i].DateTime = i
    /\ trades[4].Action = "Close"
    /\ trades[4].Quantity = Rat(-15)

\* the quantity of the lot l that the closes up to c have matched
ConsumedBy(l, c) == MatchedSum({p \in pairs : p.Open = l /\ p.Close <= c})

\* C21: under FIFO a close never touches a lot while an earlier lot of its
\* instrument still has remaining quantity; with opens of 10 at
\* t1 < t2 < t3 and a close of 15 the pairs are 10 from t1 and 5 from t2,
\* which leaves 5 on t2 and t3 untouched.
C21_FifoOrder ==
    (lastOp = "pair_buy_sell" /\ input = "fifo") =>
        /\ \A p \in pairs : \A e \in 1..(p.Close - 1) :
              (/\ trades[e].Action = "Open"
               /\ trades[e].Symbol = trades[p.Open].Symbol
               /\ trades[e].DateTime < trades[p.Open].DateTime)
                  => ConsumedBy(e, p.Close) = trades[e].Quantity[1]
        /\ LotFixture =>
              /\ pairs = {[Open |-> 1, Close |-> 4, MatchedQuantity |-> 10],
                          [Open |-> 2, Close |-> 4, MatchedQuantity |-> 5]}
              /\ trades[2].Quantity[1] - ConsumedBy(2, 4) = 5
              /\ ConsumedBy(3, 4) = 0
              /\ report[4] = 0

C21_Witness ==
    /\ lastOp = "pair_buy_sell"
    /\ input = "fifo"
    /\ LotFixture
    /\ ConsumedBy(1, 4) = 10

\* C22: under LIFO a close never touches a lot while a later lot of its
\* instrument opened before it still has remaining quantity; with opens of
\* 10 at t1 < t2 < t3 and a close of 15 the pairs are 10 from t3 and 5 from
\* t2, t1 stays fully open, and the pairs differ from those of FIFO.
C22_LifoOrder ==
    (lastOp = "pair_buy_sell" /\ input = "lifo") =>
        /\ \A p \in pairs : \A e \in 1..(p.Close - 1) :
              (/\ trades[e].Action = "Open"
               /\ trades[e].Symbol = trades[p.Open].Symbol
               /\ trades[e].DateTime > trades[p.Open].DateTime)
                  => ConsumedBy(e, p.Close) = trades[e].Quantity[1]
        /\ LotFixture =>
              /\ pairs = {[Open |-> 3, Close |-> 4, MatchedQuantity |-> 10],
                          [Open |-> 2, Close |-> 4, MatchedQuantity |-> 5]}
              /\ ConsumedBy(1, 4) = 0
              /\ pairs # pair_buy_sell(trades, "fifo").pairs

C22_Witness ==
    /\ lastOp = "pair_buy_sell"
    /\ input = "lifo"
    /\ LotFixture
    /\ ConsumedBy(3, 4) = 10

---------------------------------------------------------------------------
(* The import script (import_trades.py): a run of main with the command    *)
(* line's --strategy and the files of the upload widget.  The session      *)
(* keeps trades and filenames from one run to the next.                    *)

MaxPageRuns == 2

\* values of --strategy: two of the selector's, and two that are not
StrategyArgs == {"fifo", "max-loss", "FIFO", "best"}

\* the trades a file of the given symbol holds
FileTrades(sym, t) ==
    SeqMap(import_trades([Trades |-> <<RawTrade(sym, t, 1, 4)>>]),
           LAMBDA row : [row EXCEPT !.Account = "U1"])

\* what can be uploaded: two exports of merged trades (first line 'Hash...'),
\* a well-formed activity statement and one without the Period line
UploadFiles ==
    {[Name |-> "a.csv", Header |-> "Hash", Rows |-> FileTrades("AAA", 1)],
     [Name |-> "b.csv", Header |-> "Hash", Rows |-> FileTrades("BBB", 2)],
     [Name |-> "c.csv", Header |-> "Statement",
      Body |-> [Account |-> "U1", Period |-> TRUE, Trades |-> <<RawTrade("AAA", 3, 1, 4)>>,
                Actions |-> <<>>, Transfers |-> <<>>, Positions |-> <<>>]],
     [Name |-> "d.csv", Header |-> "Statement",
      Body |-> [Account |-> "U1", Period |-> FALSE, Trades |-> <<>>,
                Actions |-> <<>>, Transfers |-> <<>>, Positions |-> <<>>]]}

UploadLists == Distinct(UploadFiles, MaxUploads)

\* import_raw_trades of matchmaker.trades: the trade table of an export
import_raw_trades(file) == file.Rows

\* the session's trades, the files reported and the exception after the
\* loop of main over the uploaded files; len() of the State a well-formed
\* statement imports as raises TypeError
import_loop(start, files) ==
    LET F[i \in 0..Len(files)] ==
            IF i = 0 THEN [trades |-> start, errors |-> {}, raised |-> None]
            ELSE LET before == F[i - 1]
                     file == files[i]
                 IN  IF before.raised # None THEN before
                     ELSE IF file.Header = "Hash"
                     THEN [before EXCEPT !.trades = merge_trades(@, import_raw_trades(file))]
                     ELSE IF import_failure(file.Body) # None
                     THEN [before EXCEPT !.errors = @ \cup {file.Name},
                                         !.trades = merge_trades(@, <<>>)]
                     ELSE [before EXCEPT !.raised = "TypeError"]
    IN  F[Len(files)]

\* one run of main: the arguments are parsed, the trades of the session are
\* dropped when fewer files are uploaded than before, the files are imported
RunMain ==
    /\ merges < MaxPageRuns
    /\ \E strategy \in StrategyArgs, files \in UploadLists :
          LET names == SeqMap(files, LAMBDA f : f.Name)
              kept == IF names # filenames /\ Len(files) < Len(filenames)
                      THEN <<>>
                      ELSE trades
              done == import_loop(kept, files)
          IN  /\ input' = strategy
              /\ uploads' = files
              /\ filenames' = names
              /\ trades' = done.trades
              /\ errors' = done.errors
              /\ raised' = done.raised
    /\ merges' = merges + 1
    /\ lastOp' = "main"
    /\ UNCHANGED <<actions, positions, symbols, dividends, report>>
    /\ UNCHANGED <<imports, pairs, other, drop_pairings, imported_count, runs>>

NextMain == RunMain

SpecMain == Init /\ [][NextMain]_vars

\* C23: a --strategy value other than fifo, lifo, average-cost, max-loss
\* or max-profit is rejected with a configuration error at startup, before
\* any trade is imported.
C23_StrategyRejected ==
    (lastOp = "main" /\ input \notin Strategies) =>
        /\ raised = "ConfigurationError"
        /\ trades = <<>>

\* the hashes of the trades the uploaded files hold
UploadedHashes ==
    {uploads[i].Rows[k].Hash :
        <<i, k>> \in {x \in (1..Len(uploads)) \X {1} : uploads[x[1]].Header = "Hash"}}

\* C29: after a run in which the list of uploaded files differs from the
\* previous run's, the session's trades all come from the files uploaded
\* now, whether fewer files are uploaded or a file is replaced by another.
C29_OnlyCurrentUploads ==
    [][filenames' # filenames =>
          \A i \in 1..Len(trades') : trades'[i].Hash \in UploadedHashes']_vars

---------------------------------------------------------------------------
(* State.recompute_positions on a ledger that statements are merged into.  *)
(* input holds the table read from renames.csv, which no step changes.     *)

\* the symbols of the trades, positions and dividends, in order of first
\* appearance
all_symbols(self) ==
    drop_duplicates(SeqMap(self.trades \o self.positions \o self.dividends,
                           LAMBDA row : row.Symbol))

\* State.recompute_positions(): the tables after the call and the exception
\* it raised.  compute_accumulated_positions is called with one argument of
\* its two, so the call at line 89 raises TypeError and the statements after
\* it are not reached.
recompute_positions(self, renames) ==
    LET traded(sym) == \E i \in 1..Len(self.trades) : self.trades[i].Symbol = sym
        new_symbols ==
            SeqMap(all_symbols(self),
                   LAMBDA sym : [SymbolEntry(sym, sym, NaT, None) EXCEPT
                                    !.Currency = IF traded(sym) THEN "USD" ELSE None])
        populated == [self EXCEPT
                        !.symbols = KeepFirst(self.symbols \o new_symbols, SymbolColumns)]
        adjusted == [populated EXCEPT !.trades = adjust_for_splits(@, self.actions)]
        renamed == detect_and_apply_renames(adjusted, renames)
    IN  IF Len(self.trades) = 0 THEN [populated EXCEPT !.raised = None]
        ELSE IF renamed.raised # None THEN renamed
        ELSE [renamed EXCEPT !.raised = "TypeError"]

\* statements of one account: a purchase, a later purchase with a split of
\* the share between the two, and a statement that overlaps both
RecomputeStatements ==
    {[Account |-> "U1", Period |-> TRUE, Trades |-> rows, Actions |-> acts,
      Transfers |-> <<>>, Positions |-> <<>>] :
        rows \in {<<RawTrade("AAA", 1, 2, 4)>>, <<RawTrade("AAA", 3, 1, 4)>>},
        acts \in {<<>>, <<RawAction(SplitText("AAA", 2, 1), 2)>>}}

InitRecompute ==
    /\ input \in RenameHistories
    /\ trades = <<>>
    /\ actions = <<>>
    /\ positions = <<>>
    /\ imports = <<>>
    /\ pairs = {}
    /\ other = EmptyState
    /\ drop_pairings = TRUE
    /\ imported_count = 0
    /\ merges = 0
    /\ runs = 0
    /\ symbols = <<>>
    /\ dividends = <<>>
    /\ report = <<>>
    /\ raised = None
    /\ uploads = <<>>
    /\ errors = {}
    /\ filenames = <<>>
    /\ lastOp = "init"

\* a statement is imported and merged into the ledger
MergeStatement ==
    /\ merges < MaxImports
    /\ \E file \in RecomputeStatements :
          Merged(import_activity_statement(file), TRUE)
    /\ merges' = merges + 1
    /\ lastOp' = "merge"

\* State.recompute_positions()
RecomputePositions ==
    /\ lastOp \in {"merge", "recompute"}
    /\ runs < MaxRuns
    /\ LET after == recompute_positions(
                        [trades |-> trades, actions |-> actions, positions |-> positions,
                         dividends |-> dividends, symbols |-> symbols, raised |-> raised],
                        input)
       IN  /\ trades' = after.trades
           /\ positions' = after.positions
           /\ dividends' = after.dividends
           /\ symbols' = after.symbols
           /\ raised' = after.raised
    /\ runs' = runs + 1
    /\ lastOp' = "recompute"
    /\ UNCHANGED <<actions, imports, pairs, other, drop_pairings, imported_count, merges,
                   input, report, uploads, errors, filenames>>

NextRecompute == MergeStatement \/ RecomputePositions

SpecRecompute == InitRecompute /\ [][NextRecompute]_vars

\* every trade carries the accumulated quantities
Accumulated ==
    \A i \in 1..Len(trades) :
        {"AccumulatedQuantity", "AccountAccumulatedQuantity"} \subseteq DOMAIN trades[i]

\* C24: a second recompute_positions on unchanged trades, actions and
\* rename source returns and leaves the trade table, with its accumulated
\* quantities, the symbols table and the positions table as the first call
\* left them.
C24_RecomputeIdempotent ==
    [][(lastOp = "recompute" /\ lastOp' = "recompute") =>
          /\ raised' = None
          /\ Accumulated'
          /\ trades' = trades
          /\ symbols' = symbols
          /\ positions' = positions]_vars

\* the split actions of the ledger dated after the row, each counted once
LaterSplits(row) ==
    {[Symbol |-> actions[a].Symbol, DateTime |-> actions[a].DateTime,
      Ratio |-> actions[a].Ratio] :
        a \in {x \in 1..Len(actions) : /\ actions[x].Action = "Split"
                                       /\ actions[x].Symbol = row.Symbol
                                       /\ actions[x].DateTime > row.DateTime}}

\* the number of new shares per old share of the splits in S
RECURSIVE SharesPerShare(_)
SharesPerShare(S) ==
    IF S = {} THEN One
    ELSE LET a == CHOOSE x \in S : TRUE
         IN  RDiv(SharesPerShare(S \ {a}), a.Ratio)

\* C25: after a merge followed by recompute_positions every trade of the
\* ledger, also one imported by an earlier merge, has the split ratio,
\* quantity and price that the ledger's current actions give it, and its
\* accumulated quantities.
C25_FullRecompute ==
    lastOp = "recompute" =>
        /\ raised = None
        /\ Accumulated
        /\ \A i \in 1..Len(trades) :
              LET factor == SharesPerShare(LaterSplits(trades[i]))
              IN  /\ trades[i].SplitRatio = factor
                  /\ trades[i].Quantity = RMul(trades[i].OrigQuantity, factor)
                  /\ trades[i].TPrice = RDiv(trades[i].OrigTPrice, factor)

\* C26: when two merged statements report the same split, the quantity and
\* price of every trade are those the split reported once gives.
C26_OverlappingSplit ==
    (lastOp = "recompute" /\ Len(actions) > 1) =>
        \A i \in 1..Len(trades) :
            LET once == adjust_for_splits(<<trades[i]>>, drop_duplicates(actions))[1]
            IN  /\ trades[i].Quantity = once.Quantity
                /\ trades[i].TPrice = once.TPrice

---------------------------------------------------------------------------
(* Trades of two accounts in one ledger.                                   *)

\* the trades of a table as (account, symbol, timestamp, quantity, price)
AccountEntries(tr) ==
    {<<tr[i].Account, tr[i].Symbol, tr[i].DateTime, tr[i].OrigQuantity,
       tr[i].OrigTPrice>> : i \in 1..Len(tr)}

\* C30: two trades equal in symbol, timestamp, quantity and price that come
\* from statements of two different accounts are both in the ledger after
\* their statements are merged: a merge keeps every (account, trade) entry of
\* the receiving ledger and of the merged statement.
C30_AccountsKeptApart ==
    [][MergeStep =>
          AccountEntries(trades) \cup AccountEntries(other'.trades)
              \subseteq AccountEntries(trades')]_vars

---------------------------------------------------------------------------
(* Manual trades (State.add_manual_trades, ux.add_trades_editor).          *)

\* create_dataframe of add_trades_editor: the one-row table the form submits.
\* The row is built from the selected trade, so its index label is the
\* selected trade's; the cells of the columns it does not have read as null
\* once it is concatenated with the trade table.
create_dataframe(selected_trade, symbol, date, quantity, price, target) ==
    <<[Hash |-> selected_trade.Hash,
       Symbol |-> symbol,
       DateTime |-> date,
       Quantity |-> Rat(quantity),
       TPrice |-> Rat(price),
       Target |-> target,
       Action |-> "Open",
       Type |-> "Long",
       OrigQuantity |-> NaN,
       OrigTPrice |-> NaN,
       SplitRatio |-> NaN,
       Account |-> None,
       DisplaySuffix |-> None]>>

\* the columns of a trade row; Hash is the index
TradeColumns(row) == [f \in DOMAIN row \ {"Hash"} |-> row[f]]

\* State.add_manual_trades with the table read from renames.csv: the tables
\* of self when the call ends and the exception it raised
add_manual_trades(self, new_trades, renames) ==
    LET entered == SeqMap(new_trades, LAMBDA row :
                       [Manual |-> "True", Ticker |-> row.Symbol,
                        DisplayName |-> row.Symbol] @@ row)
        widened == SeqMap(self.trades, LAMBDA row :
                       row @@ [Manual |-> None, Ticker |-> None, DisplayName |-> None])
        concat == widened \o entered
    IN  recompute_positions([self EXCEPT !.trades = KeepFirst(concat, TradeColumns)],
                            renames)

\* what the form of add_trades_editor can hold: (symbol, date, quantity, price)
ManualForms == {"AAA"} \X {1, 2} \X {2} \X {4}

\* the form of add_trades_editor is submitted (add_buy_callback); save_session
\* is not reached when add_manual_trades raises
AddManualTrades ==
    /\ Len(trades) > 0
    /\ runs < MaxRuns
    /\ \E k \in 1..Len(trades), form \in ManualForms :
          LET df == create_dataframe(trades[k], form[1], form[2], form[3], form[4], None)
              after == add_manual_trades(
                           [trades |-> trades, actions |-> actions,
                            positions |-> positions, dividends |-> dividends,
                            symbols |-> symbols, raised |-> raised],
                           df, input)
          IN  /\ trades' = after.trades
              /\ positions' = after.positions
              /\ dividends' = after.dividends
              /\ symbols' = after.symbols
              /\ raised' = after.raised
              /\ pairs' = invalidate_pairs(pairs, df[1].DateTime)
              /\ report' = df
    /\ runs' = runs + 1
    /\ lastOp' = "add_manual_trades"
    /\ UNCHANGED <<actions, imports, other, drop_pairings, imported_count, merges,
                   input, uploads, errors, filenames>>

NextManual == MergeStatement \/ AddManualTrades \/ ApplyRenames

SpecManual == InitRecompute /\ [][NextManual]_vars

\* the manual rows of a table that hold the submitted trade
CopiesOf(df, tr) ==
    {i \in 1..Len(tr) :
        /\ "Manual" \in DOMAIN tr[i]
        /\ tr[i].Manual = "True"
        /\ tr[i].Symbol = df[1].Symbol
        /\ tr[i].DateTime = df[1].DateTime
        /\ tr[i].Target = df[1].Target}

\* C27: when the manual trade submitted last is submitted a second time, the
\* trade table holds exactly one copy of it afterwards and no two rows of the
\* table share an index key.
C27_ManualTradeOnce ==
    [][(lastOp = "add_manual_trades" /\ lastOp' = "add_manual_trades"
            /\ report' = report)
          => /\ Cardinality(CopiesOf(report', trades')) = 1
             /\ \A i, j \in 1..Len(trades') :
                    trades'[i].Hash = trades'[j].Hash => i = j]_vars

\* the rows of a table without their Ticker
Untickered(tr) ==
    {[f \in DOMAIN tr[i] \ {"Ticker"} |-> tr[i][f]] : i \in 1..Len(tr)}

\* the manual rows of a table
ManualRows(tr) ==
    {tr[i] : i \in {k \in 1..Len(tr) : "Manual" \in DOMAIN tr[k] /\ tr[k].Manual = "True"}}

\* C28: apply_renames changes only the Ticker of rows: the ledger holds the
\* same trades before and after it, whatever their Manual cell, and the
\* manual trades are left as they were entered.
C28_OnlyTickerChanges ==
    [][lastOp' = "apply_renames"
          => /\ Untickered(trades') = Untickered(trades)
             /\ ManualRows(trades') = ManualRows(trades)]_vars

=============================================================================
